---- MODULE Spec2Model ----
(***************************************************************************)
(* Model of the account and session lifecycle of the auth router           *)
(* (src/server/routers/auth.ts): signup, login, logout, createActiveSession *)
(* deleteSessionByToken and generateSecureToken, run by concurrent request  *)
(* handlers against a shared User Store and Session Store.                  *)
(*                                                                         *)
(* Strings are sequences of one-character strings so that trimming, case    *)
(* folding and pattern checks are computed rather than assumed.             *)
(***************************************************************************)
EXTENDS Integers, Sequences, FiniteSets, Bags, TLC

\* ------------------------------------------------------------------ bounds
NumProcs == 2        \* request handlers that may be in flight at once
MaxUsers == 2        \* user rows ever inserted (autoincrement ids 1..MaxUsers)
MaxTime == 1         \* the clock runs over seconds 0..MaxTime
MaxCalls == 2        \* nextStep calls of the signup form awaiting validation

Procs == 1..NumProcs

\* --------------------------------------------------------- program constants
SessionTtlSeconds == 86400     \* expiresIn "24h" / 24 * 60 * 60 * 1000 ms
CookieMaxAge == 604800         \* Max-Age of the cookie set by signup and login
PasswordCost == 10             \* bcrypt.hash(input.password, 10)
SsnCost == 9                   \* bcrypt.hash(input.ssn, 9)
MinPasswordLen == 8            \* z.string().min(8)

\* ------------------------------------------------------------ string helpers
Letters == {"a", "b", "c", "o", "A", "B", "C", "O", "p", "w", "d", "s", "r", "x", "y", "n"}
Digits == {"0", "1", "2", "3", "4", "5", "6", "7", "8", "9"}

LowerChar(c) ==
  CASE c = "A" -> "a" [] c = "B" -> "b" [] c = "C" -> "c" [] c = "O" -> "o"
    [] OTHER -> c

UpperChar(c) ==
  CASE c = "a" -> "A" [] c = "b" -> "B" [] c = "c" -> "C" [] c = "o" -> "O"
    [] c = "p" -> "P" [] c = "w" -> "W" [] c = "d" -> "D" [] c = "s" -> "S"
    [] c = "r" -> "R" [] c = "x" -> "X" [] c = "y" -> "Y" [] c = "n" -> "N"
    [] OTHER -> c

ToLowerCase(s) == [i \in 1..Len(s) |-> LowerChar(s[i])]

ToUpperCase(s) == [i \in 1..Len(s) |-> UpperChar(s[i])]

\* String.prototype.trim: drop the leading and trailing blanks.
Trim(s) ==
  IF \A i \in 1..Len(s) : s[i] = " " THEN <<>>
  ELSE LET a == CHOOSE i \in 1..Len(s) :
                  s[i] # " " /\ \A j \in 1..(i - 1) : s[j] = " "
           b == CHOOSE i \in 1..Len(s) :
                  s[i] # " " /\ \A j \in (i + 1)..Len(s) : s[j] = " "
       IN SubSeq(s, a, b)

AllDigits(s) == \A i \in 1..Len(s) : s[i] \in Digits

\* zod's e-mail pattern: a local part of word characters and dots that neither
\* starts with a dot nor ends with one nor holds two dots in a row, one "@",
\* and a domain of dot-separated labels ending in at least two letters.
IsEmail(s) ==
  /\ Len(s) >= 1
  /\ Cardinality({i \in 1..Len(s) : s[i] = "@"}) = 1
  /\ LET at == CHOOSE i \in 1..Len(s) : s[i] = "@"
         dots == {i \in (at + 1)..Len(s) : s[i] = "."}
     IN /\ at > 1
        /\ s[1] # "."
        /\ \A i \in 1..(Len(s) - 1) : ~(s[i] = "." /\ s[i + 1] = ".")
        /\ \A i \in 1..(at - 1) : s[i] \in Letters \cup Digits \cup {"."}
        /\ s[at - 1] # "."
        /\ \A i \in (at + 1)..Len(s) : s[i] \in Letters \cup Digits \cup {"."}
        /\ dots # {}
        /\ at + 1 <= Len(s) /\ s[at + 1] # "."
        /\ LET last == CHOOSE i \in dots : \A j \in dots : j <= i
           IN /\ Len(s) - last >= 2
              /\ \A i \in (last + 1)..Len(s) : s[i] \in Letters

\* /^\+?\d{10,15}$/
IsPhone(s) ==
  LET d == IF Len(s) >= 1 /\ s[1] = "+" THEN SubSeq(s, 2, Len(s)) ELSE s
  IN Len(d) >= 10 /\ Len(d) <= 15 /\ AllDigits(d)

\* /^\d{9}$/
IsSsn(s) == Len(s) = 9 /\ AllDigits(s)

\* /^\d{5}$/
IsZip(s) == Len(s) = 5 /\ AllDigits(s)

\* ------------------------------------------------------- credential hashing
\* bcrypt.hash: a one-way value that remembers only what bcrypt.compare can
\* ask of it (the salt is left out: nothing in the router reads it).
BcryptHash(secret, cost) == [alg |-> "bcrypt", cost |-> cost, of |-> secret]

BcryptCompare(secret, hash) == hash.alg = "bcrypt" /\ hash.of = secret

\* the value of a field spread as `password: undefined`
Undefined == [alg |-> "undefined", cost |-> 0, of |-> <<>>]

\* ------------------------------------------------------------------ tokens
\* a token whose lifetime follows the cookie's Max-Age:
\* jwt.sign({userId}, secret, {expiresIn: "7d"})
generateSecureToken_weekLong(userId, t) ==
  [userId |-> userId, iat |-> t, exp |-> t + CookieMaxAge]

\* jwt.sign({userId}, secret, {expiresIn: "24h"}): the payload is the user id,
\* iat (the clock second of issuance) and exp = iat + 24h; the HMAC signature
\* is a function of the payload, so the token is a function of (userId, iat).
generateSecureToken(userId, t) ==
  [userId |-> userId, iat |-> t, exp |-> t + SessionTtlSeconds]

NoToken == [userId |-> 0, iat |-> 0, exp |-> 0]

Tokens == {generateSecureToken(u, t) : u \in 1..MaxUsers, t \in 0..MaxTime}

\* ------------------------------------------------- dates (YYYY-MM-DD)
DigitSeq == <<"0", "1", "2", "3", "4", "5", "6", "7", "8", "9">>

DigitVal(c) == (CHOOSE i \in 1..10 : DigitSeq[i] = c) - 1

RECURSIVE ToNumber(_)
ToNumber(s) ==
  IF s = <<>> THEN 0
  ELSE 10 * ToNumber(SubSeq(s, 1, Len(s) - 1)) + DigitVal(s[Len(s)])

\* the date-only form that new Date(string) parses to a valid date
IsIsoDate(s) ==
  /\ Len(s) = 10
  /\ s[5] = "-" /\ s[8] = "-"
  /\ \A i \in {1, 2, 3, 4, 6, 7, 9, 10} : s[i] \in Digits
  /\ ToNumber(SubSeq(s, 6, 7)) \in 1..12
  /\ ToNumber(SubSeq(s, 9, 10)) \in 1..31

ParseDate(s) ==
  [y |-> ToNumber(SubSeq(s, 1, 4)), m |-> ToNumber(SubSeq(s, 6, 7)),
   d |-> ToNumber(SubSeq(s, 9, 10))]

\* dates compare as their calendar order
DateKey(date) == date.y * 10000 + date.m * 100 + date.d

IsLeapYear(y) == (y % 4 = 0 /\ y % 100 # 0) \/ y % 400 = 0

\* the calendar date of a request (new Date())
Today == [y |-> 2026, m |-> 2, d |-> 13]

\* new Date(today.getFullYear() - 18, today.getMonth(), today.getDate()):
\* a 29 February that the earlier year lacks rolls over to 1 March
EighteenYearsAgo(today) ==
  IF today.m = 2 /\ today.d = 29 /\ ~IsLeapYear(today.y - 18)
    THEN [y |-> today.y - 18, m |-> 3, d |-> 1]
    ELSE [y |-> today.y - 18, m |-> today.m, d |-> today.d]

\* --------------------------------- the signup form (src/app/signup/page.tsx)
LowerLetters == {"a", "b", "c", "o", "p", "w", "d", "s", "r", "x", "y", "n"}
UpperLetters == {UpperChar(c) : c \in LowerLetters}

US_STATE_CODES ==
  {<<"A", "L">>, <<"A", "K">>, <<"A", "Z">>, <<"A", "R">>, <<"C", "A">>,
   <<"C", "O">>, <<"C", "T">>, <<"D", "E">>, <<"F", "L">>, <<"G", "A">>,
   <<"H", "I">>, <<"I", "D">>, <<"I", "L">>, <<"I", "N">>, <<"I", "A">>,
   <<"K", "S">>, <<"K", "Y">>, <<"L", "A">>, <<"M", "E">>, <<"M", "D">>,
   <<"M", "A">>, <<"M", "I">>, <<"M", "N">>, <<"M", "S">>, <<"M", "O">>,
   <<"M", "T">>, <<"N", "E">>, <<"N", "V">>, <<"N", "H">>, <<"N", "J">>,
   <<"N", "M">>, <<"N", "Y">>, <<"N", "C">>, <<"N", "D">>, <<"O", "H">>,
   <<"O", "K">>, <<"O", "R">>, <<"P", "A">>, <<"R", "I">>, <<"S", "C">>,
   <<"S", "D">>, <<"T", "N">>, <<"T", "X">>, <<"U", "T">>, <<"V", "T">>,
   <<"V", "A">>, <<"W", "A">>, <<"W", "V">>, <<"W", "I">>, <<"W", "Y">>,
   <<"D", "C">>}

\* /^\S+@\S+$/i on a required field
ClientEmailOk(s) ==
  /\ Len(s) >= 1
  /\ \A i \in 1..Len(s) : s[i] # " "
  /\ \E i \in 2..(Len(s) - 1) : s[i] = "@"

CommonPasswords ==
  {<<"p", "a", "s", "s", "w", "o", "r", "d">>,
   <<"1", "2", "3", "4", "5", "6", "7", "8">>,
   <<"q", "w", "e", "r", "t", "y">>}

\* minLength 8, notCommon, hasNumber, hasUpper, hasLower, hasSymbol
ClientPasswordOk(s) ==
  /\ Len(s) >= MinPasswordLen
  /\ ToLowerCase(s) \notin CommonPasswords
  /\ \E i \in 1..Len(s) : s[i] \in Digits
  /\ \E i \in 1..Len(s) : s[i] \in UpperLetters
  /\ \E i \in 1..Len(s) : s[i] \in LowerLetters
  /\ \E i \in 1..Len(s) : s[i] \notin UpperLetters \cup LowerLetters \cup Digits

\* /^\+?[1-9]\d{7,14}$/
ClientPhoneOk(s) ==
  LET d == IF Len(s) >= 1 /\ s[1] = "+" THEN SubSeq(s, 2, Len(s)) ELSE s
  IN /\ Len(d) >= 8 /\ Len(d) <= 15
     /\ AllDigits(d)
     /\ d[1] # "0"

\* step 2 of nextStep: the date parses, and the step is refused when
\* dob_date >= eighteenYearsAgo. dob_date is midnight UTC of the date typed,
\* eighteenYearsAgo is local midnight: west of UTC local midnight is the later
\* instant, so the date of the 18th birthday itself passes there and only there.
ClientDobOk(s, today, westOfUtc) ==
  /\ Len(Trim(s)) >= 1
  /\ IsIsoDate(Trim(s))
  /\ LET dob == DateKey(ParseDate(Trim(s)))
         limit == DateKey(EighteenYearsAgo(today))
     IN dob < limit \/ (dob = limit /\ westOfUtc)

\* US_STATE_CODES.includes(value) and /^[A-Z]{2}$/
ClientStateOk(s) == s \in US_STATE_CODES

\* the fields of the three steps of the form, as validated before submission
\* (confirmPassword repeats the password and is not part of the server input)
ClientFormOk(form, today, westOfUtc) ==
  /\ ClientEmailOk(form.email)
  /\ ClientPasswordOk(form.password)
  /\ Len(form.firstName) >= 1
  /\ Len(form.lastName) >= 1
  /\ ClientPhoneOk(form.phoneNumber)
  /\ ClientDobOk(form.dateOfBirth, today, westOfUtc)
  /\ IsSsn(form.ssn)
  /\ Len(form.address) >= 1
  /\ Len(form.city) >= 1
  /\ ClientStateOk(form.state)
  /\ IsZip(form.zipCode)

\* ---------------------------------------------------------- request inputs
EmailUpper == <<"A", "@", "b", ".", "c", "o">>
EmailLower == <<"a", "@", "b", ".", "c", "o">>
EmailPadded == <<" ", "a", "@", "b", ".", "c", "o">>
EmailOther == <<"c", "@", "b", ".", "c", "o">>
EmailBad == <<"a", "b", ".", "c", "o">>

RawEmails == {EmailUpper, EmailLower, EmailPadded, EmailOther, EmailBad}

GoodPassword == <<"p", "a", "s", "s", "w", "o", "r", "d">>
WrongPassword == <<"p", "a", "s", "s", "w", "o", "r", "x">>
ShortPassword == <<"p", "w">>

GoodSsn == <<"1", "2", "3", "4", "5", "6", "7", "8", "9">>
ShortSsn == <<"1", "2", "3">>

BaseSignupInput ==
  [email |-> EmailLower,
   password |-> GoodPassword,
   firstName |-> <<"a">>,
   lastName |-> <<"b">>,
   phoneNumber |-> <<"+", "1", "2", "3", "4", "5", "6", "7", "8", "9", "0">>,
   dateOfBirth |-> <<"1", "9", "9", "0", "-", "0", "1", "-", "0", "1">>,
   ssn |-> GoodSsn,
   address |-> <<"x">>,
   city |-> <<"y">>,
   state |-> <<"n", "y">>,
   zipCode |-> <<"1", "0", "0", "0", "1">>]

\* one request per rule of the signup schema that it breaks
BadFieldInputs ==
  {[BaseSignupInput EXCEPT !.firstName = <<>>],
   [BaseSignupInput EXCEPT !.lastName = <<>>],
   [BaseSignupInput EXCEPT !.phoneNumber = <<"5", "5", "5", "-", "1", "2", "3", "4", "5", "6", "7">>],
   [BaseSignupInput EXCEPT !.address = <<>>],
   [BaseSignupInput EXCEPT !.city = <<>>],
   [BaseSignupInput EXCEPT !.state = <<"n", "y", "c">>],
   [BaseSignupInput EXCEPT !.zipCode = <<"1", "0", "0", "0">>]}

\* what a filled signup form submits: a password that meets the form's
\* complexity rules, the state code uppercased by the form
ComplexPassword == <<"P", "a", "s", "s", "w", "0", "r", "d", "!">>

FormInput ==
  [BaseSignupInput EXCEPT !.password = ComplexPassword, !.state = <<"N", "Y">>]

\* forms with an 8-digit phone number and with an email without a dot
FormInputs ==
  {FormInput,
   [FormInput EXCEPT !.phoneNumber = <<"+", "1", "2", "3", "4", "5", "6", "7", "8">>],
   [FormInput EXCEPT !.email = <<"a", "@", "b">>]}

\* requests sent to the server directly, with the date of birth of a child and
\* with a date of birth that is no date
YoungDob == <<"2", "0", "2", "0", "-", "0", "1", "-", "0", "1">>
NotADate == <<"x">>

DobInputs ==
  {[BaseSignupInput EXCEPT !.dateOfBirth = YoungDob],
   [BaseSignupInput EXCEPT !.dateOfBirth = NotADate]}

SignupInputs ==
  {[BaseSignupInput EXCEPT !.email = e] : e \in RawEmails}
    \cup {[BaseSignupInput EXCEPT !.password = ShortPassword],
          [BaseSignupInput EXCEPT !.ssn = ShortSsn]}
    \cup BadFieldInputs
    \cup FormInputs
    \cup DobInputs

LoginInputs ==
  [email : RawEmails, password : {GoodPassword, WrongPassword}]

\* a signup schema without the rule for the ZIP code
SignupSchemaOk_noZip(raw) ==
  /\ IsEmail(Trim(raw.email))
  /\ Len(raw.password) >= MinPasswordLen
  /\ Len(raw.firstName) >= 1
  /\ Len(raw.lastName) >= 1
  /\ IsPhone(raw.phoneNumber)
  /\ IsSsn(raw.ssn)
  /\ Len(raw.address) >= 1
  /\ Len(raw.city) >= 1
  /\ Len(raw.state) = 2

\* the signup input schema (z.object) as a predicate on the raw input ...
SignupSchemaOk(raw) ==
  /\ IsEmail(Trim(raw.email))
  /\ Len(raw.password) >= MinPasswordLen
  /\ Len(raw.firstName) >= 1
  /\ Len(raw.lastName) >= 1
  /\ IsPhone(raw.phoneNumber)
  /\ IsSsn(raw.ssn)
  /\ Len(raw.address) >= 1
  /\ Len(raw.city) >= 1
  /\ Len(raw.state) = 2
  /\ IsZip(raw.zipCode)

\* a schema that trims the email but forgets to lowercase it
SignupSchemaParse_keepCase(raw) ==
  [raw EXCEPT !.email = Trim(raw.email), !.state = ToUpperCase(raw.state)]

\* ... and the value it hands to the mutation: email trimmed and lowercased,
\* state uppercased, every other field as received.
SignupSchemaParse(raw) ==
  [raw EXCEPT !.email = ToLowerCase(Trim(raw.email)),
              !.state = ToUpperCase(raw.state)]

\* the login input schema: the email is checked but not transformed.
LoginSchemaOk(raw) == IsEmail(raw.email)

NoInput == [BaseSignupInput EXCEPT !.email = <<>>]

\* ------------------------------------------------------------------- rows
\* the row written by db.insert(users).values({...input, password, ssn})
UserRow(id, in) ==
  [id |-> id,
   email |-> in.email,
   password |-> BcryptHash(in.password, PasswordCost),
   firstName |-> in.firstName,
   lastName |-> in.lastName,
   phoneNumber |-> in.phoneNumber,
   dateOfBirth |-> in.dateOfBirth,
   ssn |-> BcryptHash(in.ssn, SsnCost),
   address |-> in.address,
   city |-> in.city,
   state |-> in.state,
   zipCode |-> in.zipCode]

NoUser == [UserRow(0, NoInput) EXCEPT !.password = Undefined, !.ssn = Undefined]

\* a session row that stores a token signed afresh instead of the one returned
SessionRow_resigned(userId, token, t) ==
  [userId |-> userId, token |-> generateSecureToken(userId, t + 1),
   expiresAt |-> t + SessionTtlSeconds]

\* the row written by db.insert(sessions).values({userId, token, expiresAt})
SessionRow(userId, token, t) ==
  [userId |-> userId, token |-> token, expiresAt |-> t + SessionTtlSeconds]

\* --------------------------------------------------------------- responses
NoCookie == [set |-> FALSE, value |-> NoToken, maxAge |-> 0 - 1]

\* `session=${sessionToken}; Path=/; HttpOnly; SameSite=Strict; Max-Age=604800`
SessionCookie(token) == [set |-> TRUE, value |-> token, maxAge |-> CookieMaxAge]

\* `session=; Path=/; HttpOnly; SameSite=Strict; Max-Age=0`
ClearedCookie == [set |-> TRUE, value |-> NoToken, maxAge |-> 0]

NoResp ==
  [op |-> "none", code |-> "NONE", message |-> "", user |-> NoUser,
   sessionToken |-> NoToken, cookie |-> NoCookie, log |-> "none"]

\* a TRPCError thrown by the handler, or a store error that escapes it
ErrorResp(o, c, m) ==
  [op |-> o, code |-> c, message |-> m, user |-> NoUser,
   sessionToken |-> NoToken, cookie |-> NoCookie, log |-> "none"]

\* a signup return that strips the password only
SignupReturn_keepSsn(u, token) ==
  [op |-> "signup", code |-> "OK", message |-> "",
   user |-> [u EXCEPT !.password = Undefined],
   sessionToken |-> token, cookie |-> SessionCookie(token), log |-> "none"]

\* return { user: { ...finalUser, password: undefined, ssn: undefined }, sessionToken }
SignupReturn(u, token) ==
  [op |-> "signup", code |-> "OK", message |-> "",
   user |-> [u EXCEPT !.password = Undefined, !.ssn = Undefined],
   sessionToken |-> token, cookie |-> SessionCookie(token), log |-> "none"]

\* return { user: { ...user, password: undefined }, sessionToken }
LoginReturn(u, token) ==
  [op |-> "login", code |-> "OK", message |-> "",
   user |-> [u EXCEPT !.password = Undefined],
   sessionToken |-> token, cookie |-> SessionCookie(token), log |-> "none"]

\* return { success: true, message: "Logged out successfully" }
LogoutReturn(l) ==
  [op |-> "logout", code |-> "OK", message |-> "Logged out successfully",
   user |-> NoUser, sessionToken |-> NoToken, cookie |-> ClearedCookie,
   log |-> l]

\* ------------------------------------------------------------------- state
VARIABLES
  users,         \* User Store: the set of user rows
  nextUserId,    \* the autoincrement id the next user row gets
  sessions,      \* Session Store: a bag of session rows
  now,           \* the clock, in seconds
  pc,            \* where each request handler stands
  op,            \* the procedure each handler runs
  input,         \* signup: the parsed input
  finalUser,     \* signup: finalUser; login: user
  sessionToken,  \* createActiveSession: sessionToken
  resp,          \* what the handler returned or threw (with its Set-Cookie)
  prevLogin,     \* the token of the request that finished last, when that
                 \* request was a successful login (NoToken otherwise)
  step,          \* signup form: useState(1)
  form,          \* signup form: the field values held by useForm
  calls,         \* signup form: the nextStep calls suspended at `await trigger`
  tzWest         \* signup form: the browser's time zone lies west of UTC

\* the state of the router and its stores, and the state of the signup form
routerVars ==
  <<users, nextUserId, sessions, now, pc, op, input, finalUser, sessionToken,
    resp, prevLogin>>

formVars == <<step, form, calls, tzWest>>

vars ==
  <<users, nextUserId, sessions, now, pc, op, input, finalUser, sessionToken,
    resp, prevLogin, step, form, calls, tzWest>>

\* ---------------------------------------------------------- store queries
\* db.select().from(users).where(eq(users.email, email))
UsersByEmail(email) == {u \in users : u.email = email}

\* a User Store without a uniqueness constraint on the email column
EmailTaken_unconstrained(email) == FALSE

\* The User Store is "unique-by-email persistence" (spec, External Interfaces):
\* it rejects the insert of a row whose email is already stored.
EmailTaken(email) == UsersByEmail(email) # {}

\* the rows of a bag that satisfy a predicate, with their multiplicities
SessionsOfUser(userId) ==
  [r \in {x \in DOMAIN sessions : x.userId = userId} |-> sessions[r]]

SessionsWithToken(token) ==
  [r \in {x \in DOMAIN sessions : x.token = token} |-> sessions[r]]

\* db.delete(sessions).where(eq(sessions.userId, userId))
DeleteSessionsOfUser(userId) ==
  [r \in {x \in DOMAIN sessions : x.userId # userId} |-> sessions[r]]

\* a delete whose filter is inverted: it keeps the row it should remove
deleteSessionByToken_inverted(token) ==
  [r \in {x \in DOMAIN sessions : x.token = token} |-> sessions[r]]

\* deleteSessionByToken: db.delete(sessions).where(eq(sessions.token, token))
deleteSessionByToken(token) ==
  [r \in {x \in DOMAIN sessions : x.token # token} |-> sessions[r]]

\* a write to the store either lands or throws
StoreOutcomes == {"ok", "error"}

\* ---------------------------------------------------------- logout request
\* String.prototype.startsWith
StartsWith(s, prefix) ==
  Len(s) >= Len(prefix) /\ SubSeq(s, 1, Len(prefix)) = prefix

\* String.prototype.split with a non-empty separator
RECURSIVE SplitOn(_, _)
SplitOn(s, sep) ==
  LET hits == {i \in 1..(Len(s) - Len(sep) + 1) :
                 SubSeq(s, i, i + Len(sep) - 1) = sep}
  IN IF hits = {} THEN <<s>>
     ELSE LET i == CHOOSE h \in hits : \A k \in hits : h <= k
          IN <<SubSeq(s, 1, i - 1)>>
               \o SplitOn(SubSeq(s, i + Len(sep), Len(s)), sep)

\* the compact serialization of a token: base64url characters and dots, one
\* string per (userId, iat)
TokenString(token) ==
  <<"j", "w", "t", ".", DigitSeq[token.userId + 1], ".", DigitSeq[token.iat + 1]>>

\* a cookie value that is truthy and is the serialization of no issued token
ForeignToken == [userId |-> 0, iat |-> 0, exp |-> 1]

\* a variable that was never assigned, or a property that is absent
NoValue == <<"undefined">>

\* the token that a string read from the request denotes for the store's
\* eq(sessions.token, token); undefined and "" are falsy
TokenOfString(s) ==
  IF s \in {NoValue, <<>>} THEN NoToken
  ELSE IF \E t \in Tokens : TokenString(t) = s
    THEN CHOOSE t \in Tokens : TokenString(t) = s
    ELSE ForeignToken

\* A request carries its cookies either as a parsed mapping (req.cookies) or
\* only as the raw "cookie" header; the jar lists the name/value pairs.
SessionName == <<"s", "e", "s", "s", "i", "o", "n">>

ThemeCookie == [name |-> <<"t", "h", "e", "m", "e">>, value |-> <<"d", "a", "r", "k">>]

SessionCookieOf(value) == [name |-> SessionName, value |-> value]

CookieJars(value) ==
  {<<>>, <<ThemeCookie>>, <<SessionCookieOf(value)>>,
   <<ThemeCookie, SessionCookieOf(value)>>,
   <<SessionCookieOf(value), ThemeCookie>>}

\* a base64 value with padding
PaddedValue == <<"a", "b", "=", "=">>

\* the values a client can put in its session cookie: the tokens that can have
\* been issued so far, an empty value, a value with "=" in it
CookieValues ==
  {TokenString(t) : t \in {k \in Tokens : k.iat <= now /\ k.userId < nextUserId}}
    \cup {<<>>, PaddedValue}

\* the logout requests of the router's specifications: no cookie at all, or the
\* session cookie alone, in either transport shape
LogoutRequests ==
  {[parsed |-> b, jar |-> j] :
     b \in BOOLEAN, j \in {<<>>} \cup {<<SessionCookieOf(v)>> : v \in CookieValues}}

\* the logout requests in all their cookie layouts
LayoutRequests ==
  {[parsed |-> b, jar |-> j] :
     b \in BOOLEAN, j \in UNION {CookieJars(v) : v \in CookieValues}}

\* the "cookie" request header: name=value pairs joined by "; "
RECURSIVE CookieHeader(_)
CookieHeader(jar) ==
  IF jar = <<>> THEN <<>>
  ELSE jar[1].name \o <<"=">> \o jar[1].value
         \o (IF Len(jar) = 1 THEN <<>>
             ELSE <<";", " ">> \o CookieHeader(Tail(jar)))

\* Method 1, line 140: cookies.session of the parsed mapping
CookiesToken(jar) ==
  LET hits == {i \in 1..Len(jar) : jar[i].name = SessionName}
  IN IF hits = {} THEN NoValue
     ELSE jar[CHOOSE i \in hits : \A j \in hits : i <= j].value

\* a header parser that splits the cookies on ";" alone
HeaderToken_semicolon(header) ==
  IF header = <<>> THEN NoValue
  ELSE LET pieces == SplitOn(header, <<";">>)
           hits == {i \in 1..Len(pieces) :
                      StartsWith(pieces[i], SessionName \o <<"=">>)}
       IN IF hits = {} THEN NoValue
          ELSE LET c == pieces[CHOOSE i \in hits : \A j \in hits : i <= j]
                   parts == SplitOn(c, <<"=">>)
               IN IF Len(parts) >= 2 THEN parts[2] ELSE NoValue

\* Method 2, lines 144-153: split the header on "; ", find the first piece
\* that starts with "session=", split it on "=" and take the piece at index 1
HeaderToken(header) ==
  IF header = <<>> THEN NoValue
  ELSE LET pieces == SplitOn(header, <<";", " ">>)
           hits == {i \in 1..Len(pieces) :
                      StartsWith(pieces[i], SessionName \o <<"=">>)}
       IN IF hits = {} THEN NoValue
          ELSE LET c == pieces[CHOOSE i \in hits : \A j \in hits : i <= j]
                   parts == SplitOn(c, <<"=">>)
               IN IF Len(parts) >= 2 THEN parts[2] ELSE NoValue

\* lines 136-154: the local `token` of logout, tabulated over the requests of
\* all clock readings
ExtractTable ==
  [r \in {[parsed |-> b, jar |-> j] :
            b \in BOOLEAN,
            j \in UNION {CookieJars(v) :
                           v \in {TokenString(t) : t \in Tokens}
                                   \cup {<<>>, PaddedValue}}}
     |-> TokenOfString(IF r.parsed THEN CookiesToken(r.jar)
                       ELSE HeaderToken(CookieHeader(r.jar)))]

ExtractToken(r) == ExtractTable[r]

\* ----------------------------------------------- state of the signup form
\* useForm() without default values: every field is empty
EmptyForm ==
  [email |-> <<>>, password |-> <<>>, confirmPassword |-> <<>>,
   firstName |-> <<>>, lastName |-> <<>>, phoneNumber |-> <<>>,
   dateOfBirth |-> <<>>, ssn |-> <<>>, address |-> <<>>, city |-> <<>>,
   state |-> <<>>, zipCode |-> <<>>]

\* a slot without a suspended nextStep call
NoCall == [closure |-> 0, valid |-> FALSE]

\* -------------------------------------------------------------------- Init
InitForm(west) ==
  /\ step = 1
  /\ form = EmptyForm
  /\ calls = [c \in 1..MaxCalls |-> NoCall]
  /\ tzWest = west

Init ==
  /\ InitForm(FALSE)
  /\ users = {}
  /\ nextUserId = 1
  /\ sessions = EmptyBag
  /\ now = 0
  /\ pc = [p \in Procs |-> "idle"]
  /\ op = [p \in Procs |-> "none"]
  /\ input = [p \in Procs |-> NoInput]
  /\ finalUser = [p \in Procs |-> NoUser]
  /\ sessionToken = [p \in Procs |-> NoToken]
  /\ resp = [p \in Procs |-> NoResp]
  /\ prevLogin = NoToken

\* the handler of p ends with response r
Done(p, r) ==
  /\ pc' = [pc EXCEPT ![p] = "done"]
  /\ resp' = [resp EXCEPT ![p] = r]

\* ------------------------------------------------------------------ signup
\* lines 39-42
ConflictError == ErrorResp("signup", "CONFLICT", "User already exists")

\* signup, lines 12-43: schema check, lookup by the normalized email, CONFLICT
\* when a row exists.
SignupSelect(p, raw) ==
  /\ pc[p] = "idle"
  /\ UNCHANGED formVars
  /\ op' = [op EXCEPT ![p] = "signup"]
  /\ UNCHANGED <<users, nextUserId, sessions, now, prevLogin, finalUser,
                 sessionToken>>
  /\ IF ~SignupSchemaOk(raw)
       THEN /\ Done(p, ErrorResp("signup", "BAD_REQUEST", "Invalid input"))
            /\ UNCHANGED input
       ELSE LET in == SignupSchemaParse(raw)
            IN /\ input' = [input EXCEPT ![p] = in]
               /\ IF UsersByEmail(in.email) # {}
                    THEN Done(p, ConflictError)
                    ELSE /\ nextUserId
                              + Cardinality({q \in Procs : pc[q] = "signup_insert"})
                              <= MaxUsers
                         /\ pc' = [pc EXCEPT ![p] = "signup_insert"]
                         /\ UNCHANGED resp

\* lines 48-55: the insert is not wrapped in try/catch, so the store's
\* rejection escapes the handler and reaches the caller as an internal error
UniqueViolationError ==
  ErrorResp("signup", "INTERNAL_SERVER_ERROR", "UNIQUE constraint failed: users.email")

\* what the awaited insert(...).returning() can hand back: the created row,
\* an exception, an array without a row, or no value at all
InsertOutcomes == StoreOutcomes \cup {"empty", "undefined"}

\* lines 57-62: the guard `if (!user)`
FailedToCreateUserError ==
  ErrorResp("signup", "INTERNAL_SERVER_ERROR", "Failed to create user")

\* lines 64-66: an array is truthy even when empty, so the guard lets it
\* pass; user[0] is undefined and finalUser.id throws a TypeError before
\* createActiveSession is called; the error reaches the caller as an
\* internal error with the TypeError's message
NoRowTypeError ==
  ErrorResp("signup", "INTERNAL_SERVER_ERROR",
            "Cannot read properties of undefined (reading 'id')")

\* signup, lines 45-64: hash password and SSN, insert the row, take user[0].
SignupInsert(p, outcome) ==
  /\ pc[p] = "signup_insert"
  /\ UNCHANGED formVars
  /\ UNCHANGED <<sessions, now, op, prevLogin, input, sessionToken>>
  /\ IF outcome = "error"
       THEN /\ Done(p, ErrorResp("signup", "INTERNAL_SERVER_ERROR", "store error"))
            /\ UNCHANGED <<users, nextUserId, finalUser>>
       ELSE IF outcome = "undefined"
         THEN /\ Done(p, FailedToCreateUserError)
              /\ UNCHANGED <<users, nextUserId, finalUser>>
       ELSE IF outcome = "empty"
         THEN /\ Done(p, NoRowTypeError)
              /\ UNCHANGED <<users, nextUserId, finalUser>>
       ELSE IF EmailTaken(input[p].email)
         THEN /\ Done(p, UniqueViolationError)
              /\ UNCHANGED <<users, nextUserId, finalUser>>
         ELSE LET row == UserRow(nextUserId, input[p])
              IN /\ users' = users \cup {row}
                 /\ nextUserId' = nextUserId + 1
                 /\ finalUser' = [finalUser EXCEPT ![p] = row]
                 /\ pc' = [pc EXCEPT ![p] = "cas_delete"]
                 /\ UNCHANGED resp

\* ------------------------------------------------------------------- login
\* a lookup failure that tells the caller the account does not exist
UserNotFoundError_telling == ErrorResp("login", "NOT_FOUND", "User not found")

\* lines 101-106: no row for the email
UserNotFoundError == ErrorResp("login", "UNAUTHORIZED", "Invalid credentials")

\* lines 110-115: bcrypt.compare said no
InvalidPasswordError == ErrorResp("login", "UNAUTHORIZED", "Invalid credentials")

\* a login that trims and lowercases the email before the lookup
Login_normalizing(p, raw) ==
  /\ pc[p] = "idle"
  /\ UNCHANGED formVars
  /\ op' = [op EXCEPT ![p] = "login"]
  /\ UNCHANGED <<users, nextUserId, sessions, now, prevLogin, input,
                 sessionToken>>
  /\ IF ~LoginSchemaOk(raw)
       THEN /\ Done(p, ErrorResp("login", "BAD_REQUEST", "Invalid input"))
            /\ UNCHANGED finalUser
       ELSE IF UsersByEmail(ToLowerCase(Trim(raw.email))) = {}
         THEN /\ Done(p, UserNotFoundError)
              /\ UNCHANGED finalUser
         ELSE \E user \in UsersByEmail(ToLowerCase(Trim(raw.email))) :
                /\ finalUser' = [finalUser EXCEPT ![p] = user]
                /\ IF ~BcryptCompare(raw.password, user.password)
                     THEN Done(p, InvalidPasswordError)
                     ELSE /\ pc' = [pc EXCEPT ![p] = "cas_delete"]
                          /\ UNCHANGED resp

\* login, lines 88-115: lookup by the email as supplied, compare the password.
Login(p, raw) ==
  /\ pc[p] = "idle"
  /\ UNCHANGED formVars
  /\ op' = [op EXCEPT ![p] = "login"]
  /\ UNCHANGED <<users, nextUserId, sessions, now, prevLogin, input,
                 sessionToken>>
  /\ IF ~LoginSchemaOk(raw)
       THEN /\ Done(p, ErrorResp("login", "BAD_REQUEST", "Invalid input"))
            /\ UNCHANGED finalUser
       ELSE IF UsersByEmail(raw.email) = {}
         THEN /\ Done(p, UserNotFoundError)
              /\ UNCHANGED finalUser
         ELSE \E user \in UsersByEmail(raw.email) :
                /\ finalUser' = [finalUser EXCEPT ![p] = user]
                /\ IF ~BcryptCompare(raw.password, user.password)
                     THEN Done(p, InvalidPasswordError)
                     ELSE /\ pc' = [pc EXCEPT ![p] = "cas_delete"]
                          /\ UNCHANGED resp

\* ----------------------------------------------------- createActiveSession
\* lines 187-190: sign the token, delete every session row of the user.
CasDelete(p, outcome) ==
  /\ pc[p] = "cas_delete"
  /\ UNCHANGED formVars
  /\ UNCHANGED <<users, nextUserId, now, op, prevLogin, input>>
  /\ IF outcome = "error"
       THEN /\ Done(p, ErrorResp(op[p], "INTERNAL_SERVER_ERROR", "store error"))
            /\ finalUser' = [finalUser EXCEPT ![p] = NoUser]
            /\ UNCHANGED <<sessions, sessionToken>>
       ELSE /\ sessionToken' =
                 [sessionToken EXCEPT ![p] = generateSecureToken(finalUser[p].id, now)]
            /\ sessions' = DeleteSessionsOfUser(finalUser[p].id)
            /\ pc' = [pc EXCEPT ![p] = "cas_insert"]
            /\ UNCHANGED <<resp, finalUser>>

\* lines 193-199, then the caller's Set-Cookie and return (66-84, 117-131).
CasInsert(p, outcome) ==
  /\ pc[p] = "cas_insert"
  /\ UNCHANGED formVars
  /\ UNCHANGED <<users, nextUserId, now, op, prevLogin, input>>
  /\ finalUser' = [finalUser EXCEPT ![p] = NoUser]
  /\ sessionToken' = [sessionToken EXCEPT ![p] = NoToken]
  /\ IF outcome = "error"
       THEN /\ Done(p, ErrorResp(op[p], "INTERNAL_SERVER_ERROR", "store error"))
            /\ UNCHANGED sessions
       ELSE /\ sessions' = sessions
                 (+) SetToBag({SessionRow(finalUser[p].id, sessionToken[p], now)})
            /\ Done(p, IF op[p] = "signup"
                         THEN SignupReturn(finalUser[p], sessionToken[p])
                         ELSE LoginReturn(finalUser[p], sessionToken[p]))

\* ------------------------------------------------------------------ logout
\* a logout without the try/catch: the store's error escapes to the caller
LogoutResponse_rethrow(token, outcome) ==
  IF token = NoToken THEN LogoutReturn("none")
  ELSE IF outcome = "ok" THEN LogoutReturn("Session deleted")
  ELSE ErrorResp("logout", "INTERNAL_SERVER_ERROR", "store error")

\* lines 156-181: what logout logs and returns, given the token it found and
\* how the store's delete went; a throwing delete is caught and logged.
LogoutResponse(token, outcome) ==
  IF token = NoToken THEN LogoutReturn("none")
  ELSE IF outcome = "ok" THEN LogoutReturn("Session deleted")
  ELSE LogoutReturn("Delete session error")

\* logout, lines 134-182: extract the token, delete its row inside try/catch,
\* clear the cookie, report success.  sessionToken[p] holds the local `token`.
Logout(p, r, outcome) ==
  /\ pc[p] = "idle"
  /\ UNCHANGED formVars
  /\ op' = [op EXCEPT ![p] = "logout"]
  /\ UNCHANGED <<users, nextUserId, now, prevLogin, input, finalUser>>
  /\ LET token == ExtractToken(r)
     IN /\ sessionToken' = [sessionToken EXCEPT ![p] = token]
        /\ token = NoToken => outcome = "ok"
        /\ sessions' = IF token # NoToken /\ outcome = "ok"
                         THEN deleteSessionByToken(token)
                         ELSE sessions
        /\ Done(p, LogoutResponse(token, outcome))

\* ------------------------------------------------------------- environment
\* the response reaches the client; the handler slot takes the next request
Finish(p) ==
  /\ pc[p] = "done"
  /\ UNCHANGED formVars
  /\ pc' = [pc EXCEPT ![p] = "idle"]
  /\ op' = [op EXCEPT ![p] = "none"]
  /\ resp' = [resp EXCEPT ![p] = NoResp]
  /\ prevLogin' = IF resp[p].op = "login" /\ resp[p].code = "OK"
                     THEN resp[p].sessionToken ELSE NoToken
  /\ input' = [input EXCEPT ![p] = NoInput]
  /\ finalUser' = [finalUser EXCEPT ![p] = NoUser]
  /\ sessionToken' = [sessionToken EXCEPT ![p] = NoToken]
  /\ UNCHANGED <<users, nextUserId, sessions, now>>

Tick ==
  /\ now < MaxTime
  /\ UNCHANGED formVars
  /\ now' = now + 1
  /\ UNCHANGED <<users, nextUserId, sessions, pc, op, input, finalUser,
                 sessionToken, resp, prevLogin>>

Step(p) ==
  \/ \E raw \in SignupInputs : SignupSelect(p, raw)
  \/ \E o \in InsertOutcomes : SignupInsert(p, o)
  \/ \E raw \in LoginInputs : Login(p, raw)
  \/ \E o \in StoreOutcomes : CasDelete(p, o)
  \/ \E o \in StoreOutcomes : CasInsert(p, o)
  \/ \E r \in LogoutRequests, o \in StoreOutcomes : Logout(p, r, o)
  \/ Finish(p)

\* requests overlap freely
Next == Tick \/ \E p \in Procs : Step(p)

Spec == Init /\ [][Next]_vars

\* requests run one after the other: a handler takes a request only while
\* every other slot is idle, so at most one handler is ever in flight
Alone(p) == \A q \in Procs \ {p} : pc[q] = "idle"

StepSeq(p) ==
  \/ \E raw \in SignupInputs : Alone(p) /\ SignupSelect(p, raw)
  \/ \E o \in InsertOutcomes : SignupInsert(p, o)
  \/ \E raw \in LoginInputs : Alone(p) /\ Login(p, raw)
  \/ \E o \in StoreOutcomes : CasDelete(p, o)
  \/ \E o \in StoreOutcomes : CasInsert(p, o)
  \/ \E r \in LogoutRequests, o \in StoreOutcomes : Alone(p) /\ Logout(p, r, o)
  \/ Finish(p)

NextSeq == Tick \/ \E p \in Procs : StepSeq(p)

SeqSpec == Init /\ [][NextSeq]_vars

\* overlapping requests, each handler slot serving one request: the slots
\* never recycle, so NumProcs bounds the requests of a run. The signups differ
\* in their email only, which is all that the races on the stores depend on.
RaceSignupInputs == {[BaseSignupInput EXCEPT !.email = e] : e \in RawEmails}

StepRace(p) ==
  \/ \E raw \in RaceSignupInputs : SignupSelect(p, raw)
  \/ \E o \in InsertOutcomes : SignupInsert(p, o)
  \/ \E raw \in LoginInputs : Login(p, raw)
  \/ \E o \in StoreOutcomes : CasDelete(p, o)
  \/ \E o \in StoreOutcomes : CasInsert(p, o)
  \/ \E r \in LogoutRequests, o \in StoreOutcomes : Logout(p, r, o)

NextRace == Tick \/ \E p \in Procs : StepRace(p)

RaceSpec == Init /\ [][NextRace]_vars

\* the token extraction of logout on its own: logout requests in every cookie
\* layout, while logins issue the tokens that the cookies carry
StepCookie(p) ==
  \/ \E raw \in RaceSignupInputs : Alone(p) /\ SignupSelect(p, raw)
  \/ SignupInsert(p, "ok")
  \/ CasDelete(p, "ok")
  \/ CasInsert(p, "ok")
  \/ \E r \in LayoutRequests, o \in StoreOutcomes : Alone(p) /\ Logout(p, r, o)
  \/ Finish(p)

NextCookie == Tick \/ \E p \in Procs : StepCookie(p)

CookieSpec == Init /\ [][NextCookie]_vars

\* ------------------------------ the signup form (src/app/signup/page.tsx)
\* what the user can type into the fields of each step
AdultDob == <<"1", "9", "9", "0", "-", "0", "1", "-", "0", "1">>
BirthdayDob == <<"2", "0", "0", "8", "-", "0", "2", "-", "1", "3">>
AlmostDob == <<"2", "0", "0", "8", "-", "0", "2", "-", "1", "4">>

Step1Values ==
  [email : {EmailLower, EmailUpper, EmailBad},
   password : {ComplexPassword},
   confirmPassword : {ComplexPassword, GoodPassword}]

Step2Values ==
  [firstName : {<<"a">>},
   lastName : {<<"b">>},
   phoneNumber : {FormInput.phoneNumber, <<"0", "1", "2", "3">>},
   dateOfBirth : {AdultDob, BirthdayDob, AlmostDob, NotADate}]

\* trigger(["email", "password", "confirmPassword"])
Step1FieldsOk(f) ==
  /\ ClientEmailOk(f.email)
  /\ ClientPasswordOk(f.password)
  /\ Len(f.confirmPassword) >= 1
  /\ f.confirmPassword = f.password

\* trigger(["firstName", "lastName", "phoneNumber", "dateOfBirth"])
Step2FieldsOk(f) ==
  /\ Len(f.firstName) >= 1
  /\ Len(f.lastName) >= 1
  /\ ClientPhoneOk(f.phoneNumber)
  /\ Len(f.dateOfBirth) >= 1

\* the user fills in the fields of the step on display
TypeFields ==
  /\ UNCHANGED <<routerVars, step, calls, tzWest>>
  /\ \/ /\ step = 1
        /\ \E v \in Step1Values :
             form' = [form EXCEPT !.email = v.email, !.password = v.password,
                                  !.confirmPassword = v.confirmPassword]
     \/ /\ step = 2
        /\ \E v \in Step2Values :
             form' = [form EXCEPT !.firstName = v.firstName,
                                  !.lastName = v.lastName,
                                  !.phoneNumber = v.phoneNumber,
                                  !.dateOfBirth = v.dateOfBirth]
     \/ /\ step = 3
        /\ form' = [form EXCEPT !.ssn = FormInput.ssn,
                                !.address = FormInput.address,
                                !.city = FormInput.city,
                                !.state = FormInput.state,
                                !.zipCode = FormInput.zipCode]

\* a click on Next (rendered while step < 3): nextStep runs up to
\* `await trigger(fieldsToValidate)` with the step of the render it closes over
ClickNext ==
  /\ step < 3
  /\ \E c \in 1..MaxCalls :
       /\ calls[c] = NoCall
       /\ \A d \in 1..(c - 1) : calls[d] # NoCall
       /\ calls' = [calls EXCEPT ![c] =
                      [closure |-> step,
                       valid |-> IF step = 1 THEN Step1FieldsOk(form)
                                 ELSE IF step = 2 THEN Step2FieldsOk(form)
                                 ELSE TRUE]]
  /\ UNCHANGED <<routerVars, step, form, tzWest>>

\* nextStep after the await: return when the fields are invalid; at step 1
\* return when Mailcheck (a library, its answer is an input here) suggests
\* another address, else store the lowercased email; at step 2 run the age
\* check on the date of birth as it is now; then setStep((prev) => prev + 1)
\* on the latest step
ResumeNext(c) ==
  /\ calls[c] # NoCall
  /\ calls' = [calls EXCEPT ![c] = NoCall]
  /\ UNCHANGED <<routerVars, tzWest>>
  /\ IF ~calls[c].valid
       THEN UNCHANGED <<step, form>>
       ELSE IF calls[c].closure = 1
         THEN \E typoFound \in BOOLEAN :
                IF typoFound
                  THEN UNCHANGED <<step, form>>
                  ELSE /\ form' = [form EXCEPT
                                     !.email = ToLowerCase(Trim(form.email))]
                       /\ step' = step + 1
       ELSE IF calls[c].closure = 2
         THEN IF ClientDobOk(form.dateOfBirth, Today, tzWest)
                THEN /\ step' = step + 1
                     /\ UNCHANGED form
                ELSE UNCHANGED <<step, form>>
       ELSE /\ step' = step + 1
            /\ UNCHANGED form

\* a click on Previous (rendered while step > 1): setStep(step - 1)
ClickPrevious ==
  /\ step > 1
  /\ step' = step - 1
  /\ UNCHANGED <<routerVars, form, calls, tzWest>>

NextWizard ==
  TypeFields \/ ClickNext \/ (\E c \in 1..MaxCalls : ResumeNext(c)) \/ ClickPrevious

\* the form in a browser of either kind of time zone; the router is idle
InitWizard ==
  /\ \E west \in BOOLEAN : InitForm(west)
  /\ users = {}
  /\ nextUserId = 1
  /\ sessions = EmptyBag
  /\ now = 0
  /\ pc = [p \in Procs |-> "idle"]
  /\ op = [p \in Procs |-> "none"]
  /\ input = [p \in Procs |-> NoInput]
  /\ finalUser = [p \in Procs |-> NoUser]
  /\ sessionToken = [p \in Procs |-> NoToken]
  /\ resp = [p \in Procs |-> NoResp]
  /\ prevLogin = NoToken

WizardSpec == InitWizard /\ [][NextWizard]_vars

TypeOK ==
  /\ nextUserId \in 1..(MaxUsers + 1)
  /\ now \in 0..MaxTime
  /\ \A u \in users : u.id \in 1..MaxUsers
  /\ \A p \in Procs :
       pc[p] \in {"idle", "signup_insert", "cas_delete", "cas_insert", "done"}
  /\ step \in 1..(2 + MaxCalls)
  /\ tzWest \in BOOLEAN
  /\ \A c \in 1..MaxCalls :
       calls[c].closure \in 0..2 /\ calls[c].valid \in BOOLEAN

\* ================================================================== claims
StringFields ==
  {"email", "firstName", "lastName", "phoneNumber", "dateOfBirth", "address",
   "city", "state", "zipCode"}

TokenRows(token) == BagCardinality(SessionsWithToken(token))

UserRows(userId) == BagCardinality(SessionsOfUser(userId))

\* C1: in every reachable state, with requests overlapping freely and the
\* delete and the insert of createActiveSession as separate store steps, the
\* Session Store holds at most one session row per user id.
C1_AtMostOneSessionPerUser == \A u \in 1..MaxUsers : UserRows(u) <= 1

\* C2: a signup that returns normally (schema-valid, email fresh, no store
\* failure) leaves exactly one user row with its normalized email, and exactly
\* one session row for that row's id, holding the returned token; a signup
\* that runs alone ends in CONFLICT only if a row with its email exists.
C2_SignupCreatesUserAndSession ==
  \A p \in Procs :
    (pc[p] = "done" /\ resp[p].op = "signup") =>
      /\ resp[p].code = "OK" =>
           /\ resp[p].user.email = input[p].email
           /\ Cardinality(UsersByEmail(input[p].email)) = 1
           /\ \A u \in UsersByEmail(input[p].email) : u.id = resp[p].user.id
           /\ UserRows(resp[p].user.id) = 1
           /\ \A r \in DOMAIN SessionsOfUser(resp[p].user.id) :
                r.token = resp[p].sessionToken
           /\ resp[p].sessionToken # NoToken
      /\ resp[p].code = "CONFLICT" => UsersByEmail(input[p].email) # {}

C2_Witness ==
  \E p \in Procs :
    /\ pc[p] = "done" /\ resp[p].op = "signup" /\ resp[p].code = "OK"
    /\ Cardinality(users) = 2
    /\ TokenRows(resp[p].sessionToken) = 1

\* C3: run alone, a schema-valid signup whose trimmed, lowercased email equals
\* the email of an existing user row fails with CONFLICT and writes nothing:
\* user rows and session rows are unchanged, no cookie is set, and exactly one
\* user row with that email remains.
C3_DuplicateSignupConflict ==
  [][\A p \in Procs, raw \in SignupInputs :
       LET email == ToLowerCase(Trim(raw.email))
       IN (SignupSelect(p, raw) /\ SignupSchemaOk(raw) /\ UsersByEmail(email) # {})
            => /\ pc'[p] = "done"
               /\ resp'[p].code = "CONFLICT"
               /\ resp'[p].message = "User already exists"
               /\ ~resp'[p].cookie.set
               /\ users' = users
               /\ sessions' = sessions
               /\ Cardinality({u \in users' : u.email = email}) = 1]_vars

C3_Witness ==
  \E p \in Procs :
    /\ pc[p] = "done" /\ resp[p].op = "signup" /\ resp[p].code = "CONFLICT"
    /\ Cardinality(UsersByEmail(input[p].email)) = 1
    /\ ~resp[p].cookie.set

\* C4: after two successful logins for the same user run one after the other,
\* the Session Store holds exactly one session row for that user, its token is
\* the one the second login returned, and the token the first login returned
\* matches no session row.
C4_SecondLoginSupersedesFirst ==
  \A p \in Procs :
    (/\ pc[p] = "done" /\ resp[p].op = "login" /\ resp[p].code = "OK"
     /\ prevLogin # NoToken /\ prevLogin.userId = resp[p].user.id)
      => /\ UserRows(resp[p].user.id) = 1
         /\ \A r \in DOMAIN SessionsOfUser(resp[p].user.id) :
              r.token = resp[p].sessionToken
         /\ TokenRows(prevLogin) = 0

C7_LogoutVerifiesSession ==
  [][\A p \in Procs, r \in LogoutRequests, o \in StoreOutcomes :
       (Logout(p, r, o) /\ resp'[p].code = "OK"
          /\ resp'[p].message = "Logged out successfully")
         => /\ ExtractToken(r) # NoToken
            /\ TokenRows(ExtractToken(r)) >= 1
            /\ \A x \in DOMAIN sessions' : x.token # ExtractToken(r)]_vars

\* C8: a login with an email that has no user row and a login with an existing
\* email and a wrong password have the same observable outcome: UNAUTHORIZED,
\* 'Invalid credentials', no user, no token, no cookie; both stores unchanged.
C8_NoUserEnumeration ==
  [][\A p \in Procs, raw \in LoginInputs :
       (/\ Login(p, raw) /\ LoginSchemaOk(raw)
        /\ \/ UsersByEmail(raw.email) = {}
           \/ \A u \in UsersByEmail(raw.email) :
                ~BcryptCompare(raw.password, u.password))
         => /\ pc'[p] = "done"
            /\ resp'[p] = [op |-> "login", code |-> "UNAUTHORIZED",
                           message |-> "Invalid credentials", user |-> NoUser,
                           sessionToken |-> NoToken, cookie |-> NoCookie,
                           log |-> "none"]
            /\ users' = users
            /\ sessions' = sessions]_vars

C8_Witness ==
  \E p \in Procs :
    /\ pc[p] = "done" /\ resp[p].op = "login" /\ resp[p].code = "UNAUTHORIZED"
    /\ finalUser[p] # NoUser
    /\ \E u \in users : u.email # finalUser[p].email

\* C9: the user object returned by a successful signup carries no password
\* value and no SSN value, neither plaintext nor hash.
C9_SignupHidesSecrets ==
  \A p \in Procs :
    (pc[p] = "done" /\ resp[p].op = "signup" /\ resp[p].code = "OK") =>
      /\ resp[p].user.password = Undefined
      /\ resp[p].user.ssn = Undefined
      /\ \A f \in StringFields :
           resp[p].user[f] \notin {input[p].password, input[p].ssn}

C9_Witness ==
  \E p \in Procs :
    /\ pc[p] = "done" /\ resp[p].op = "signup" /\ resp[p].code = "OK"
    /\ \E u \in users : u.id = resp[p].user.id /\ u.ssn # Undefined

\* C10: the user object returned by a successful login contains neither the
\* password hash nor the stored SSN value.
C10_LoginHidesSecrets ==
  \A p \in Procs :
    (pc[p] = "done" /\ resp[p].op = "login" /\ resp[p].code = "OK") =>
      /\ resp[p].user.password = Undefined
      /\ resp[p].user.ssn = Undefined

\* C11: in every reachable state, also after two signups for the same normalized
\* email whose existence check and insert interleave, the User rows have
\* pairwise distinct emails.
C11_DistinctEmails == \A u, v \in users : u.email = v.email => u = v

\* two signups for one email both passed the existence check; the second insert
\* met the row of the first
C11_Witness ==
  \E p \in Procs :
    /\ pc[p] = "done" /\ resp[p].op = "signup"
    /\ resp[p].message = "UNIQUE constraint failed: users.email"
    /\ \E u \in users : u.email = input[p].email

\* C12: a signup that passed the existence check and whose user insert the store
\* rejects, because a row with the same email was inserted meanwhile, fails with
\* the CONFLICT error of the fast path and creates no session.
C12_RejectedInsertIsConflict ==
  [][\A p \in Procs :
       (SignupInsert(p, "ok") /\ UsersByEmail(input[p].email) # {})
         => /\ resp'[p].code = "CONFLICT"
            /\ resp'[p].message = "User already exists"
            /\ users' = users /\ sessions' = sessions]_vars

\* C13: a session lasts 24 hours: the expiry embedded in an issued token is 24
\* hours after the token's issuance, the expiresAt of the row inserted for it is
\* 24 hours after the clock reading of the insert (never before the token's own
\* expiry), and neither follows the 7-day Max-Age (604800 s) that signup and
\* login put on the cookie.
C13_SessionsLastOneDay ==
  /\ [](\A r \in DOMAIN sessions :
          /\ r.token.exp = r.token.iat + 24 * 60 * 60
          /\ r.token.exp <= r.expiresAt
          /\ r.expiresAt <= now + 24 * 60 * 60)
  /\ [](\A p \in Procs :
          (pc[p] = "done" /\ resp[p].op \in {"signup", "login"}
             /\ resp[p].code = "OK")
            => /\ resp[p].sessionToken.exp = resp[p].sessionToken.iat + 24 * 60 * 60
               /\ resp[p].cookie.maxAge = 604800
               /\ resp[p].cookie.value = resp[p].sessionToken)
  /\ [][\A p \in Procs :
          CasInsert(p, "ok")
            => \E r \in DOMAIN sessions' :
                 /\ r.token = sessionToken[p]
                 /\ r.expiresAt = now + 24 * 60 * 60
                 /\ r.expiresAt # now + 604800]_vars

\* a login answered with the 7-day cookie while the row of its token is stored;
\* the clock moved between the signing of the token and the insert of the row
C13_Witness ==
  \E p \in Procs :
    /\ pc[p] = "done" /\ resp[p].op = "login" /\ resp[p].code = "OK"
    /\ resp[p].cookie.maxAge = CookieMaxAge
    /\ \E r \in DOMAIN sessions :
         r.token = resp[p].sessionToken /\ r.expiresAt > r.token.exp

\* the rules of the signup schema that a raw input breaks
BrokenRules(raw) ==
  (IF IsEmail(Trim(raw.email)) THEN {} ELSE {"email"})
    \cup (IF Len(raw.password) >= 8 THEN {} ELSE {"password"})
    \cup (IF raw.firstName # <<>> THEN {} ELSE {"firstName"})
    \cup (IF raw.lastName # <<>> THEN {} ELSE {"lastName"})
    \cup (IF IsPhone(raw.phoneNumber) THEN {} ELSE {"phoneNumber"})
    \cup (IF Len(raw.ssn) = 9 /\ AllDigits(raw.ssn) THEN {} ELSE {"ssn"})
    \cup (IF raw.address # <<>> THEN {} ELSE {"address"})
    \cup (IF raw.city # <<>> THEN {} ELSE {"city"})
    \cup (IF Len(raw.state) = 2 THEN {} ELSE {"state"})
    \cup (IF Len(raw.zipCode) = 5 /\ AllDigits(raw.zipCode) THEN {} ELSE {"zipCode"})

\* C14: a signup request that breaks any rule of the server's schema (email
\* format, password shorter than 8, empty first name, last name, address or
\* city, phone number off the pattern, SSN not 9 digits, state not 2
\* characters, ZIP not 5 digits) is rejected before any store access: the
\* answer does not depend on the User Store (also when a row with the email
\* exists, it is the validation error, not CONFLICT), no User or Session row is
\* written and no cookie is set.
C14_InvalidSignupTouchesNoStore ==
  [][\A p \in Procs, raw \in SignupInputs :
       (SignupSelect(p, raw) /\ BrokenRules(raw) # {})
         => /\ pc'[p] = "done"
            /\ resp'[p].code = "BAD_REQUEST"
            /\ resp'[p].cookie.set = FALSE
            /\ resp'[p].sessionToken = NoToken
            /\ users' = users /\ nextUserId' = nextUserId
            /\ sessions' = sessions]_vars

\* a rejected signup while the User Store holds the row that a lookup of the
\* request's email would have found
C14_Witness ==
  \E p \in Procs :
    /\ pc[p] = "done" /\ resp[p].op = "signup" /\ resp[p].code = "BAD_REQUEST"
    /\ \E u \in users : u.email = EmailLower
    /\ \A rule \in {"email", "password", "firstName", "lastName", "phoneNumber",
                    "ssn", "address", "city", "state", "zipCode"} :
         \E raw \in SignupInputs : BrokenRules(raw) = {rule}

\* C15: every set of field values that passes the validation of all three
\* steps of the signup form is accepted by the server's signup schema.
C15_FormAcceptedIsServerAccepted ==
  [][\A p \in Procs, raw \in SignupInputs :
       (SignupSelect(p, raw)
          /\ \E westOfUtc \in BOOLEAN : ClientFormOk(raw, Today, westOfUtc))
         => resp'[p].code # "BAD_REQUEST"]_vars

\* C16: no signup request creates a User row whose dateOfBirth is not a valid
\* date or lies less than 18 years before the date of the request.
C16_EveryUserIsAdult ==
  \A u \in users :
    /\ IsIsoDate(u.dateOfBirth)
    /\ DateKey(ParseDate(u.dateOfBirth)) <= DateKey(EighteenYearsAgo(Today))

\* C17: when two createActiveSession calls for one user overlap and both
\* complete, the Session Store afterwards holds exactly the row written by the
\* insert that ran last: one row for the user, with that call's token, and no
\* row of the other call.
C17_LastInsertWins ==
  [][\A p, q \in Procs :
       (/\ CasInsert(p, "ok")
        /\ q # p /\ pc[q] = "done" /\ resp[q].code = "OK"
        /\ resp[q].user.id = finalUser[p].id)
         => /\ BagCardinality([r \in {x \in DOMAIN sessions' :
                                          x.userId = finalUser[p].id}
                                   |-> sessions'[r]]) = 1
            /\ \A x \in DOMAIN sessions' :
                 x.userId = finalUser[p].id => x.token = sessionToken[p]]_vars

\* C18: logout deletes only session rows whose token is exactly the token the
\* request carries: every User row, and every session row with another token
\* (the current session of a user whose older, superseded token is presented
\* among them), is unchanged, and no row is added.
C18_LogoutDeletesOnlyItsToken ==
  [][\A p \in Procs, r \in LogoutRequests, o \in StoreOutcomes :
       Logout(p, r, o)
         => /\ users' = users /\ nextUserId' = nextUserId
            /\ \A x \in DOMAIN sessions :
                 TokenString(x.token) # CookiesToken(r.jar)
                   => x \in DOMAIN sessions' /\ sessions'[x] = sessions[x]
            /\ \A x \in DOMAIN sessions' :
                 x \in DOMAIN sessions /\ sessions'[x] <= sessions[x]]_vars

\* a logout that presented a superseded token of a user and deleted nothing:
\* the user's current session is still stored
C18_Witness ==
  \E p \in Procs :
    /\ pc[p] = "done" /\ resp[p].op = "logout"
    /\ resp[p].log = "Session deleted"
    /\ sessionToken[p] \in Tokens
    /\ \E x \in DOMAIN sessions :
         x.userId = sessionToken[p].userId /\ x.token # sessionToken[p]

\* C19: the two ways of reading the session token agree: for cookies that
\* contain session=T, the token read from the parsed cookie mapping and the
\* token read from the raw "cookie" header (split on "; ", then on "=") are
\* both exactly T, for every value T and every position of the cookie.
C19_CookiePathsAgree ==
  [][\A p \in Procs, o \in StoreOutcomes, b \in BOOLEAN, v \in CookieValues :
       \A jar \in CookieJars(v) :
         (/\ pc[p] = "idle" /\ pc'[p] = "done"
          /\ Logout(p, [parsed |-> b, jar |-> jar], o)
          /\ \E i \in 1..Len(jar) : jar[i] = SessionCookieOf(v))
           => /\ CookiesToken(jar) = v
              /\ HeaderToken(CookieHeader(jar)) = v
              /\ sessionToken'[p] = TokenOfString(v)]_vars

\* C19, amended: the two ways agree on every value T that holds no "=", which
\* is every token that generateSecureToken issues.
C19_CookiePathsAgreeWithoutEquals ==
  [][\A p \in Procs, o \in StoreOutcomes, b \in BOOLEAN, v \in CookieValues :
       \A jar \in CookieJars(v) :
         (/\ pc[p] = "idle" /\ pc'[p] = "done"
          /\ Logout(p, [parsed |-> b, jar |-> jar], o)
          /\ \E i \in 1..Len(jar) : jar[i] = SessionCookieOf(v)
          /\ \A i \in 1..Len(v) : v[i] # "=")
           => /\ CookiesToken(jar) = v
              /\ HeaderToken(CookieHeader(jar)) = v
              /\ sessionToken'[p] = TokenOfString(v)]_vars

\* a logout that read an issued token out of a raw header in which the
\* session cookie comes second
C19_Witness ==
  \E p \in Procs :
    /\ pc[p] = "done" /\ resp[p].op = "logout"
    /\ sessionToken[p] \in Tokens
    /\ \E r \in LayoutRequests :
         /\ ~r.parsed /\ Len(r.jar) = 2 /\ r.jar[2].name = SessionName
         /\ HeaderToken(CookieHeader(r.jar)) = TokenString(sessionToken[p])

\* C20: when the session creation of a signup fails after its user insert
\* succeeded, the User row stays, without any Session row; a signup retried
\* with the same email then fails with CONFLICT, and a login with the same
\* email and password passes the credential check and goes on to create the
\* session.
C20_SessionlessUserLogsIn ==
  /\ [](\A p \in Procs :
          (pc[p] = "done" /\ resp[p].op = "signup"
             /\ resp[p].code = "INTERNAL_SERVER_ERROR"
             /\ UsersByEmail(input[p].email) # {})
            => \A u \in UsersByEmail(input[p].email) : UserRows(u.id) = 0)
  /\ [][\A p \in Procs, u \in users :
          UserRows(u.id) = 0
            => /\ \A raw \in SignupInputs :
                    (SignupSelect(p, raw) /\ BrokenRules(raw) = {}
                       /\ ToLowerCase(Trim(raw.email)) = u.email)
                      => resp'[p].code = "CONFLICT"
               /\ \A raw \in LoginInputs :
                    (Login(p, raw) /\ IsEmail(Trim(raw.email))
                       /\ ToLowerCase(Trim(raw.email)) = u.email
                       /\ BcryptCompare(raw.password, u.password))
                      => pc'[p] = "cas_delete" /\ finalUser'[p] = u]_vars

\* C21: when the user insert of a signup yields no created row, the signup
\* fails with INTERNAL_SERVER_ERROR and the message 'Failed to create user',
\* creates no session and sets no cookie.
C21_NoRowIsFailedToCreateUser ==
  [][\A p \in Procs, o \in {"empty", "undefined"} :
       SignupInsert(p, o)
         => /\ pc'[p] = "done"
            /\ resp'[p].code = "INTERNAL_SERVER_ERROR"
            /\ resp'[p].message = "Failed to create user"
            /\ resp'[p].cookie.set = FALSE
            /\ sessions' = sessions]_vars

\* C22: when nextStep runs at step 2 (the call closed over step 2, the form
\* still shows step 2 and holds the values that were validated), the form
\* moves to step 3 exactly when the other step-2 fields are valid and the date
\* of birth is a date on or before the day 18 years before today; a person
\* whose 18th birthday is today proceeds.
C22_Step2AdvancesIffAdult ==
  [][\A c \in 1..MaxCalls :
       (/\ ResumeNext(c)
        /\ calls[c].closure = 2
        /\ step = 2
        /\ calls[c].valid = Step2FieldsOk(form))
         => (step' = 3
               <=> /\ Step2FieldsOk(form)
                   /\ IsIsoDate(Trim(form.dateOfBirth))
                   /\ DateKey(ParseDate(Trim(form.dateOfBirth)))
                        <= DateKey(EighteenYearsAgo(Today)))]_vars

\* C23: no two session rows of the Session Store share a token, and the
\* tokens handed out by two distinct createActiveSession calls that succeeded
\* (for the same user in the same clock second too, one after the other or
\* overlapping) are different.
C23_SessionTokensAreDistinct ==
  /\ \A r \in DOMAIN sessions : sessions[r] = 1
  /\ \A r1, r2 \in DOMAIN sessions : r1 # r2 => r1.token # r2.token
  /\ \A p, q \in Procs :
       (/\ p # q
        /\ pc[p] = "done" /\ resp[p].code = "OK" /\ resp[p].cookie.set
        /\ pc[q] = "done" /\ resp[q].code = "OK" /\ resp[q].cookie.set)
         => resp[p].sessionToken # resp[q].sessionToken

\* C24: in every reachable state of the signup form, Next and Previous clicks
\* overlapping a nextStep that still awaits validation included, the step
\* counter is 1, 2 or 3, and every move of the counter up to 3 is made by a
\* nextStep call of step 2 whose field validation and age check passed.
C24_StepInRangeAndGated ==
  /\ [](step \in 1..3)
  /\ [][(step' = 3 /\ step < 3)
          => \E c \in 1..MaxCalls :
               /\ calls[c].closure = 2
               /\ calls'[c] = NoCall
               /\ calls[c].valid
               /\ ClientDobOk(form.dateOfBirth, Today, tzWest)]_vars

\* C25: signup stores the trimmed, lowercased email, and login looks the user
\* up by the email exactly as supplied: with the correct password, a login
\* whose email is character for character the stored one goes on to create the
\* session, and a login whose email differs from the stored one only in
\* letter case fails with UNAUTHORIZED 'Invalid credentials'.
C25_LoginEmailIsExact ==
  /\ [][\A p \in Procs, raw \in SignupInputs :
          (SignupSelect(p, raw) /\ pc'[p] = "signup_insert")
            => input'[p].email = ToLowerCase(Trim(raw.email))]_vars
  /\ [][\A p \in Procs :
          (SignupInsert(p, "ok") /\ users' # users)
            => \A u \in users' \ users : u.email = input[p].email]_vars
  /\ [][\A p \in Procs, raw \in LoginInputs, u \in users :
          (/\ Login(p, raw)
           /\ ToLowerCase(raw.email) = u.email
           /\ BcryptCompare(raw.password, u.password))
            => IF raw.email = u.email
                 THEN pc'[p] = "cas_delete" /\ finalUser'[p] = u
                 ELSE /\ pc'[p] = "done"
                      /\ resp'[p].code = "UNAUTHORIZED"
                      /\ resp'[p].message = "Invalid credentials"
                      /\ sessions' = sessions]_vars

\* a login with an acceptable email found no row although every acceptable
\* email of the inputs belongs, up to letter case, to a signed-up user
C25_Witness ==
  \E p \in Procs :
    /\ pc[p] = "done" /\ resp[p].op = "login"
    /\ resp[p].code = "UNAUTHORIZED" /\ finalUser[p] = NoUser
    /\ \A e \in RawEmails :
         IsEmail(e) => \E u \in users : u.email = ToLowerCase(e)

====
